---- MODULE Spec2Model ----
(***************************************************************************)
(* Newton's cradle (benj01/newton-pendulum): the physics lifecycle of the  *)
(* modular tree (src/src/main.js, src/src/physics/*.js), the builders of   *)
(* the legacy monolith (src/newton-pendulum/src/physics.js), the frame     *)
(* callbacks, the per-frame string synchronisation and its log, the rope   *)
(* construction of the soft-body revisions, the world factory and the      *)
(* drag controls (src/newton-pendulum/src/controls.js).                    *)
(*                                                                         *)
(* The engine (Ammo/Bullet) is the environment.  A world is an identifier  *)
(* with the set of rigid bodies and the set of soft bodies that are live   *)
(* in it.  The engine's outcomes that the source handles explicitly are    *)
(* nondeterministic inputs of the actions: the module is absent, loading,  *)
(* ready or failed; a rope helper returns nothing; an anchor call returns  *)
(* a falsy value; a call made after the rope was added throws; the rigid   *)
(* body builder throws after the frame bodies; a frame's engine call       *)
(* throws; a node position is not finite.                                  *)
(***************************************************************************)
EXTENDS Integers, Sequences, FiniteSets, TLC

\* ---------------------------------------------------------------- bounds
MaxBalls == 2
MaxCradles == 3
MaxWorlds == 3
MaxBuilds == 3
MaxNodes == 4
MaxRopeNodes == 10
MaxClock == 2
MaxMoves == 6
MaxDrags == 2
MaxTouches == 2
NumLogNodes == 2

\* ------------------------------------------------------------- constants
\* createRigidBodyStrings: segments of one rigid string chain
segmentsPerString == 8
\* time is counted in units of 1/6000 s
\* updatePhysics(cradle, deltaTime = 1/60)
defaultDeltaTime == 100
\* Math.min(deltaTime, 0.2)
maxDelta == 1200
\* cradle children named frame_top, frame_left, frame_right, frame_base
NumFrames == 4
\* the drag controls count time in units of 100 ms
\* tapLength < 300
tapWindow == 3
\* timeScale * 2, with timeScale = 1000 / elapsed milliseconds
releaseScale == 20
\* lastDragPositions.length > 5
maxSamples == 5
\* the log of the string update counts time in units of 500 ms
\* warningCooldown: 1000
warningCooldown == 2

VARIABLES
  ammo,          \* "absent" | "loading" | "ready" | "failed": the Ammo global and window.AmmoReadyPromise
  softCapable,   \* the engine build exposes the soft-body entry points
  softEnabled,   \* physicsConfig.softBody.enabled
  rev,           \* the revision that runs: "modular" (src/src) or "legacy" (physics.js monolith)
  physics,       \* core.js: module handle is set
  physicsWorld,  \* core.js: current world, 0 = none
  softHelpers,   \* core.js: softBodyHelpers and softBodyWorldInfo are set
  nextWorld,     \* worlds created so far
  rigid,         \* rigid bodies live in each world
  soft,          \* soft bodies live in each world
  ballBodies,    \* rigidBodies.js: tracked ball bodies
  frameBodies,   \* rigidBodies.js: tracked frame bodies (the floor included)
  softBodies,    \* softBodies.js: tracked ropes
  stringBodies,  \* physics.js: tracked bodies of the rigid string chains
  nextBuild,     \* body builds started so far
  initialized,   \* index.js
  physicsBodies, \* index.js: non-null
  stringPhysics, \* index.js: non-null
  cradle,        \* main.js: the cradle in the scene
  nextCradle,    \* cradles created so far
  appPhase,      \* main.js: "start" | "initializing" | "running" | "failed"
  microtasks,    \* promise reactions ready to run, in FIFO order
  waiting,       \* continuations waiting on a pending AmmoReadyPromise
  last,          \* what the last operation did and returned
  arg,           \* the input of the function under study: node reads, rope parameters
  out,           \* what the function made of it: string geometry, node masses
  controls       \* controls.js: the drag state, and the drag bodies and constraints in the world

physVars == <<physics, physicsWorld, softHelpers, nextWorld, rigid, soft,
              ballBodies, frameBodies, softBodies, stringBodies, nextBuild,
              initialized, physicsBodies, stringPhysics>>
envVars == <<ammo, softCapable, softEnabled, rev>>
appVars == <<cradle, nextCradle, appPhase, microtasks, waiting>>
fnVars == <<arg, out, controls>>
vars == <<envVars, physVars, appVars, last, fnVars>>

Worlds == 1..MaxWorlds
NoCradle == [id |-> 0, n |-> 0]
NoArg == [op |-> "none"]
NoOut == [op |-> "none"]

\* controls.js before any event: nothing selected, no drag body, no sample.
\* bodies and constraints are the drag anchors and point constraints in the
\* world; pushed counts the samples pushed since the drag began; nBodies is
\* getBallBodies().length
NoControls ==
  [isDragging |-> FALSE, selectedBallIndex |-> -1, lastDragPositions |-> <<>>,
   mouseBody |-> 0, mouseConstraint |-> 0, lastTap |-> 0,
   now |-> 0, bodies |-> {}, constraints |-> {}, pushed |-> 0, nBodies |-> 0]

Range(s) == {s[i] : i \in 1..Len(s)}

\* The module state of core.js, rigidBodies.js, softBodies.js and index.js
\* as one record, so that a handler is the composition of the calls it makes.
Phys ==
  [physics |-> physics, physicsWorld |-> physicsWorld, softHelpers |-> softHelpers,
   nextWorld |-> nextWorld, rigid |-> rigid, soft |-> soft,
   ballBodies |-> ballBodies, frameBodies |-> frameBodies, softBodies |-> softBodies,
   stringBodies |-> stringBodies,
   nextBuild |-> nextBuild, initialized |-> initialized,
   physicsBodies |-> physicsBodies, stringPhysics |-> stringPhysics]

Install(p) ==
  /\ physics' = p.physics
  /\ physicsWorld' = p.physicsWorld
  /\ softHelpers' = p.softHelpers
  /\ nextWorld' = p.nextWorld
  /\ rigid' = p.rigid
  /\ soft' = p.soft
  /\ ballBodies' = p.ballBodies
  /\ frameBodies' = p.frameBodies
  /\ softBodies' = p.softBodies
  /\ stringBodies' = p.stringBodies
  /\ nextBuild' = p.nextBuild
  /\ initialized' = p.initialized
  /\ physicsBodies' = p.physicsBodies
  /\ stringPhysics' = p.stringPhysics

PhysIs(p) ==
  /\ physics = p.physics
  /\ physicsWorld = p.physicsWorld
  /\ softHelpers = p.softHelpers
  /\ nextWorld = p.nextWorld
  /\ rigid = p.rigid
  /\ soft = p.soft
  /\ ballBodies = p.ballBodies
  /\ frameBodies = p.frameBodies
  /\ softBodies = p.softBodies
  /\ stringBodies = p.stringBodies
  /\ nextBuild = p.nextBuild
  /\ initialized = p.initialized
  /\ physicsBodies = p.physicsBodies
  /\ stringPhysics = p.stringPhysics

PhysInit ==
  [physics |-> FALSE, physicsWorld |-> 0, softHelpers |-> FALSE,
   nextWorld |-> 0, rigid |-> [w \in Worlds |-> {}], soft |-> [w \in Worlds |-> {}],
   ballBodies |-> <<>>, frameBodies |-> <<>>, softBodies |-> <<>>, stringBodies |-> <<>>,
   nextBuild |-> 0, initialized |-> FALSE,
   physicsBodies |-> FALSE, stringPhysics |-> FALSE]

\* ------------------------------------------------------------ core.js
\* checkSoftBodyCapability: the three typeof probes
checkSoftBodyCapability == softCapable

\* initPhysics after the await resolved: a new world replaces the current one
initPhysicsWorld(p) ==
  [p EXCEPT !.physics = TRUE,
            !.physicsWorld = p.nextWorld + 1,
            !.nextWorld = p.nextWorld + 1,
            !.softHelpers = p.softHelpers \/ checkSoftBodyCapability]

\* clearPhysicsWorld: every collision object and every soft body of the
\* current world is removed; the world and the tracking lists stay
clearPhysicsWorld(p) ==
  IF p.physicsWorld = 0 THEN p
  ELSE [p EXCEPT !.rigid[p.physicsWorld] = {},
                 !.soft[p.physicsWorld] = IF softCapable THEN {} ELSE @]

\* ------------------------------------------------------- rigidBodies.js
Body(b, c, k, i) == [b |-> b, c |-> c, k |-> k, i |-> i]

\* clearBodies: the tracked bodies leave the current world, the lists empty
clearBodies(p) ==
  IF p.physicsWorld = 0 THEN p
  ELSE [p EXCEPT !.rigid[p.physicsWorld] = @ \ (Range(p.ballBodies) \cup Range(p.frameBodies)),
                 !.ballBodies = <<>>,
                 !.frameBodies = <<>>]

\* the bodies clearBodies hands to removeRigidBody of the current world
clearBodies_removed(p) ==
  IF p.physicsWorld = 0 THEN {}
  ELSE Range(p.ballBodies) \cup Range(p.frameBodies)

\* those of them that are not in the world they are removed from
clearBodies_foreign(p) ==
  IF p.physicsWorld = 0 THEN {}
  ELSE clearBodies_removed(p) \ p.rigid[p.physicsWorld]

\* createFrameBodies, createBallBodies, createFloorBody of build b on cradle c
createFrameBodies(p, b, c) ==
  LET new == [i \in 1..NumFrames |-> Body(b, c.id, "frame", i)]
  IN [p EXCEPT !.rigid[p.physicsWorld] = @ \cup Range(new),
               !.frameBodies = @ \o new]

createBallBodies(p, b, c) ==
  LET new == [i \in 1..c.n |-> Body(b, c.id, "ball", i)]
  IN [p EXCEPT !.rigid[p.physicsWorld] = @ \cup Range(new),
               !.ballBodies = @ \o new]

createFloorBody(p, b, c) ==
  LET floor == Body(b, c.id, "floor", 1)
  IN [p EXCEPT !.rigid[p.physicsWorld] = @ \cup {floor},
               !.frameBodies = Append(@, floor)]

\* what the engine does with one run of the rigid body builder: the builder
\* has no try block of its own, so an engine call that throws while the ball
\* bodies are made leaves the frame bodies made before it in the world
RigidOutcomes == {"ok", "throwAfterFrames"}

\* createPhysicsBodies without its guard on the module and the world
createPhysicsBodies_noGuard(p, c, outcome) ==
  LET b == p.nextBuild + 1
      p0 == [clearBodies(p) EXCEPT !.nextBuild = b]
      p1 == createFrameBodies(p0, b, c)
  IN IF outcome = "throwAfterFrames"
     THEN [p |-> p1, ret |-> FALSE, threw |-> TRUE]
     ELSE [p |-> createFloorBody(createBallBodies(p1, b, c), b, c),
           ret |-> TRUE, threw |-> FALSE]

\* createPhysicsBodies: ret is FALSE for the null return, threw is TRUE when
\* the call ends by an exception
createPhysicsBodies(p, c, outcome) ==
  IF ~p.physics \/ p.physicsWorld = 0
  THEN [p |-> p, ret |-> FALSE, threw |-> FALSE]
  ELSE LET b == p.nextBuild + 1
           p0 == [clearBodies(p) EXCEPT !.nextBuild = b]
           p1 == createFrameBodies(p0, b, c)
       IN IF outcome = "throwAfterFrames"
          THEN [p |-> p1, ret |-> FALSE, threw |-> TRUE]
          ELSE [p |-> createFloorBody(createBallBodies(p1, b, c), b, c),
                ret |-> TRUE, threw |-> FALSE]

\* -------------------------------------------------- softBodies.js (part_017)
Rope(b, c, i) == [b |-> b, c |-> c, i |-> i]

\* what the engine does with one rope construction
RopeOutcomes == {"ok", "noRope", "anchorFalsy", "throwAfterAdd"}

clearSoftBodies(p) ==
  IF p.physicsWorld = 0 THEN p
  ELSE [p EXCEPT !.soft[p.physicsWorld] = @ \ Range(p.softBodies),
                 !.softBodies = <<>>]

\* initSoftBodyPhysics: helpers and world info are created when the build has them
initSoftBodyPhysics(p) ==
  IF ~p.physics \/ p.physicsWorld = 0 \/ ~softCapable
  THEN [p |-> p, ret |-> FALSE]
  ELSE [p |-> [p EXCEPT !.softHelpers = TRUE], ret |-> TRUE]

\* createSoftBodyRope: the rope is added to the world before its anchors are
\* made; a falsy anchor removes it again, an exception leaves it where it is
createSoftBodyRope(p, r, haveBodies, outcome) ==
  IF ~p.softHelpers \/ ~p.physics \/ p.physicsWorld = 0 THEN [p |-> p, ret |-> FALSE]
  ELSE IF ~haveBodies THEN [p |-> p, ret |-> FALSE]
  ELSE IF outcome = "noRope" THEN [p |-> p, ret |-> FALSE]
  ELSE LET added == [p EXCEPT !.soft[p.physicsWorld] = @ \cup {r}]
       IN IF outcome = "anchorFalsy"
          THEN [p |-> [added EXCEPT !.soft[p.physicsWorld] = @ \ {r}], ret |-> FALSE]
          ELSE IF outcome = "throwAfterAdd"
          THEN [p |-> added, ret |-> FALSE]
          ELSE [p |-> [added EXCEPT !.softBodies = Append(@, r)], ret |-> TRUE]

RECURSIVE ropeLoop(_, _, _, _, _)
\* the loop over the balls of createStringPhysics; created counts the ropes returned
ropeLoop(p, b, c, outs, i) ==
  IF i > c.n THEN [p |-> p, created |-> 0]
  ELSE LET one == createSoftBodyRope(p, Rope(b, c.id, i), TRUE, outs[i])
           rest == ropeLoop(one.p, b, c, outs, i + 1)
       IN [p |-> rest.p, created |-> rest.created + (IF one.ret THEN 1 ELSE 0)]

createStringPhysics(p, c, outs) ==
  LET p1 == IF Len(p.softBodies) > 0 THEN clearSoftBodies(p) ELSE p
      sb == IF ~p1.softHelpers THEN initSoftBodyPhysics(p1) ELSE [p |-> p1, ret |-> TRUE]
  IN IF ~sb.ret THEN [p |-> sb.p, ret |-> FALSE]
     ELSE IF c.n = 0 THEN [p |-> sb.p, ret |-> FALSE]
     ELSE LET b == sb.p.nextBuild + 1
              lp == ropeLoop([sb.p EXCEPT !.nextBuild = b], b, c, outs, 1)
          IN [p |-> lp.p, ret |-> lp.created > 0]

\* ------------------------------------------------------------- index.js
\* cleanupPhysics
cleanupPhysics(p) ==
  IF ~p.initialized THEN p
  ELSE LET p1 == IF p.stringPhysics
                 THEN [clearSoftBodies(p) EXCEPT !.stringPhysics = FALSE]
                 ELSE p
       IN [clearPhysicsWorld(p1) EXCEPT !.initialized = FALSE, !.physicsBodies = FALSE]

\* initPhysicsSystem after `await initPhysics()`: factory is the value awaited
\* the catch block returns false and leaves `initialized` as it was
initPhysicsSystemRest(p, factory, c, outs, rigidOutcome) ==
  IF factory = "null" THEN [p |-> p, ret |-> FALSE]
  ELSE IF c.id = 0 THEN [p |-> [p EXCEPT !.initialized = TRUE], ret |-> TRUE]
  ELSE LET rb == createPhysicsBodies(p, c, rigidOutcome)
           p1 == [rb.p EXCEPT !.physicsBodies = rb.ret]
       IN IF rb.threw THEN [p |-> rb.p, ret |-> FALSE]
          ELSE IF ~rb.ret THEN [p |-> p1, ret |-> FALSE]
          ELSE LET sp == IF softCapable /\ softEnabled
                         THEN createStringPhysics(p1, c, outs)
                         ELSE [p |-> p1, ret |-> p1.stringPhysics]
               IN [p |-> [sp.p EXCEPT !.stringPhysics = sp.ret, !.initialized = TRUE],
                   ret |-> TRUE]

\* ------------------------------------------ physics.js (legacy monolith)
\* initPhysics: a rigid-only world replaces the current one
initPhysics_legacy(p) ==
  [p EXCEPT !.physics = TRUE,
            !.physicsWorld = p.nextWorld + 1,
            !.nextWorld = p.nextWorld + 1]

\* initSoftBodyPhysics: helpers are made when the build has the soft-body classes
initSoftBodyPhysics_legacy(p) ==
  IF ~p.physics \/ p.physicsWorld = 0 \/ ~softCapable
  THEN [p |-> p, ret |-> FALSE]
  ELSE [p |-> [p EXCEPT !.softHelpers = TRUE], ret |-> TRUE]

\* createRigidBodyStrings: per ball a static anchor and segmentsPerString segments
createRigidBodyStrings(p, b, c) ==
  LET chain == [j \in 1..(c.n * (segmentsPerString + 1)) |-> Body(b, c.id, "chain", j)]
  IN [p EXCEPT !.rigid[p.physicsWorld] = @ \cup Range(chain),
               !.stringBodies = @ \o chain]

\* createStringPhysics: the tracked chain bodies and ropes are removed first.
\* The world is a btDiscreteDynamicsWorld, so createSoftBodyRope fails at
\* physicsWorld.addSoftBody inside its try block and no rope is ever added.
createStringPhysics_legacy(p, b, c) ==
  LET p1 == IF Len(p.stringBodies) > 0
            THEN [p EXCEPT !.rigid[p.physicsWorld] = @ \ Range(p.stringBodies),
                           !.stringBodies = <<>>]
            ELSE p
      p2 == clearSoftBodies(p1)
      sb == IF ~p2.softHelpers THEN initSoftBodyPhysics_legacy(p2) ELSE [p |-> p2, ret |-> TRUE]
  IN IF ~sb.ret THEN createRigidBodyStrings(sb.p, b, c) ELSE sb.p

\* createPhysicsBodies: the lists are reset, the bodies they held stay in the
\* world; frame bodies, then per ball a ball body and a roof point are added.
\* Without a module handle the first engine call throws after the reset.
createPhysicsBodies_legacy(p, c) ==
  LET b == p.nextBuild + 1
      p0 == [p EXCEPT !.ballBodies = <<>>, !.frameBodies = <<>>, !.nextBuild = b]
      frames == [i \in 1..NumFrames |-> Body(b, c.id, "frame", i)]
      balls == [i \in 1..c.n |-> Body(b, c.id, "ball", i)]
      roofs == {Body(b, c.id, "roof", i) : i \in 1..c.n}
  IN IF ~p.physics \/ p.physicsWorld = 0
     THEN [p |-> p0, ret |-> FALSE]
     ELSE [p |-> createStringPhysics_legacy(
                   [p0 EXCEPT !.rigid[p.physicsWorld] = @ \cup Range(frames) \cup Range(balls) \cup roofs,
                              !.frameBodies = frames,
                              !.ballBodies = balls], b, c),
           ret |-> TRUE]

\* ------------------------------------------------------------ the frame
\* real time between two frames: 0.001 s, 1/120 s, 1/60 s, just under, at and
\* just over 0.2 s, and 5 s
Deltas == {6, 50, 100, 1199, 1200, 1201, 30000}

\* the engine call of a frame that throws, if any: stepSimulation, a rigid
\* body's transform read, a string body's or node's position read
FrameFailures == {"none", "step", "sync", "string"}

Min(a, b) == IF a < b THEN a ELSE b

\* core.js stepPhysics: passed is the delta given to stepSimulation, -1 for no call
stepPhysics(p, deltaTime, failure) ==
  IF p.physicsWorld = 0 THEN [passed |-> -1, raised |-> FALSE]
  ELSE [passed |-> deltaTime, raised |-> failure = "step"]

\* the same without the return on `!initialized`
updatePhysics_noInitCheck(p, c, deltaTime, failure) ==
  [passed |-> stepPhysics(p, deltaTime, failure).passed, threw |-> FALSE]

\* index.js updatePhysics: whatever is raised inside is caught and logged
updatePhysics(p, c, deltaTime, failure) ==
  IF ~p.initialized THEN [passed |-> -1, threw |-> FALSE]
  ELSE [passed |-> stepPhysics(p, deltaTime, failure).passed, threw |-> FALSE]

\* physics.js stepPhysics, syncPhysicsObjects, updateSoftBodyStrings and
\* updateStringPhysics: no rope is ever tracked, so the string update reads the
\* chain bodies; none of the reads is inside a try block
stepPhysics_legacy(p, deltaTime, failure) ==
  IF p.physicsWorld = 0 THEN [passed |-> -1, raised |-> FALSE]
  ELSE [passed |-> deltaTime, raised |-> failure = "step"]

syncPhysicsObjects_legacy(p, failure) ==
  failure = "sync" /\ Len(p.ballBodies) > 0

updateStringPhysics_legacy(p, failure) ==
  failure = "string" /\ Len(p.stringBodies) > 1

\* -------------------------------------------------------------- main.js
NoLast ==
  [op |-> "none", ret |-> FALSE, loaded |-> FALSE, factory |-> "none",
   built |-> FALSE, had |-> 0, hadUntracked |-> 0, stepped |-> FALSE,
   c |-> 0, twice |-> FALSE, absent |-> FALSE,
   balls |-> 0, frames |-> 0, world |-> 0,
   prevBalls |-> 0, prevFrames |-> 0, prevWorld |-> 0,
   d |-> 0, passed |-> -1, threw |-> FALSE, failure |-> "none",
   outs |-> <<>>, work |-> <<>>, prevRet |-> FALSE, faults |-> FALSE,
   cleared |-> 0, foreign |-> 0, ropes |-> <<>>]

Cont(k, kind, c, factory, loaded, ok) ==
  [k |-> k, kind |-> kind, c |-> c, factory |-> factory, loaded |-> loaded, ok |-> ok]

\* live bodies of the current world
LiveCount(p) ==
  IF p.physicsWorld = 0 THEN 0
  ELSE Cardinality(p.rigid[p.physicsWorld]) + Cardinality(p.soft[p.physicsWorld])

UntrackedRopes(p) ==
  IF p.physicsWorld = 0 THEN {}
  ELSE p.soft[p.physicsWorld] \ Range(p.softBodies)

\* initPhysicsSystem up to its first await, with an initPhysics that does not
\* look whether the module is there
firstAwait_noModuleCheck(kind, c) ==
  Cont("physics", kind, c, "none", ammo # "absent", FALSE)

\* initPhysicsSystem up to its first await: initPhysics returns null at once
\* when the module is absent, and otherwise awaits window.AmmoReadyPromise
firstAwait(kind, c) ==
  IF ammo = "absent"
  THEN Cont("system", kind, c, "null", FALSE, FALSE)
  ELSE Cont("physics", kind, c, "none", TRUE, FALSE)

\* the app state a handler works on
App == [p |-> Phys, cradle |-> cradle, nextCradle |-> nextCradle,
        microtasks |-> microtasks, waiting |-> waiting]

InstallApp(a) ==
  /\ Install(a.p)
  /\ cradle' = a.cradle
  /\ nextCradle' = a.nextCradle
  /\ microtasks' = a.microtasks
  /\ waiting' = a.waiting

\* createCradle and the call of initPhysicsSystem(cradle) up to its first await
startInit(a, kind, n) ==
  LET c == [id |-> a.nextCradle + 1, n |-> n]
      k == firstAwait(kind, c)
  IN [a EXCEPT !.cradle = c,
               !.nextCradle = a.nextCradle + 1,
               !.microtasks = IF ammo = "loading" THEN @ ELSE Append(@, k),
               !.waiting = IF ammo = "loading" THEN Append(@, k) ELSE @]

\* handleRestart up to its await
handleRestartSync(a, n) ==
  startInit([a EXCEPT !.p = cleanupPhysics(a.p)], "restart", n)

\* init: scene, first cradle, initPhysicsSystem
init ==
  /\ appPhase = "start"
  /\ \E n \in 1..MaxBalls : InstallApp(startInit(App, "init", n))
  /\ appPhase' = "initializing"
  /\ last' = [NoLast EXCEPT !.op = "init"]
  /\ UNCHANGED <<fnVars, envVars>>

\* handleRestart: the user presses restart
handleRestart ==
  /\ appPhase = "running"
  /\ microtasks = <<>>
  /\ nextCradle < MaxCradles
  /\ nextWorld < MaxWorlds
  /\ \E n \in 1..MaxBalls : InstallApp(handleRestartSync(App, n))
  /\ last' = [NoLast EXCEPT !.op = "handleRestart",
                            !.had = LiveCount(Phys),
                            !.hadUntracked = Cardinality(UntrackedRopes(Phys))]
  /\ UNCHANGED <<fnVars, envVars, appPhase>>

\* handleSettingsChange: a restart for settings.scene and one for settings.physics
handleSettingsChange ==
  /\ appPhase = "running"
  /\ microtasks = <<>>
  /\ \E sc, ph, en \in BOOLEAN, n \in 1..MaxBalls :
       /\ sc \/ ph
       /\ nextCradle + (IF sc /\ ph THEN 2 ELSE 1) <= MaxCradles
       /\ nextWorld + (IF sc /\ ph THEN 2 ELSE 1) <= MaxWorlds
       /\ softEnabled' = IF ph THEN en ELSE softEnabled
       /\ LET a1 == handleRestartSync(App, n)
              a2 == IF sc /\ ph THEN handleRestartSync(a1, n) ELSE a1
          IN InstallApp(a2)
  /\ last' = [NoLast EXCEPT !.op = "handleSettingsChange",
                            !.had = LiveCount(Phys),
                            !.hadUntracked = Cardinality(UntrackedRopes(Phys))]
  /\ UNCHANGED <<fnVars, ammo, softCapable, rev, appPhase>>

\* the script tag defines Ammo and window.AmmoReadyPromise
ammoScriptLoads ==
  /\ ammo = "absent"
  /\ microtasks = <<>>
  /\ ammo' = "loading"
  /\ last' = [NoLast EXCEPT !.op = "ammoScriptLoads"]
  /\ UNCHANGED <<fnVars, softCapable, softEnabled, rev, physVars, appVars>>

\* window.AmmoReadyPromise settles; the reactions waiting on it become ready
ammoSettles ==
  /\ ammo = "loading"
  /\ microtasks = <<>>
  /\ \E r \in {"ready", "failed"} : ammo' = r
  /\ microtasks' = waiting
  /\ waiting' = <<>>
  /\ last' = [NoLast EXCEPT !.op = "ammoSettles"]
  /\ UNCHANGED <<fnVars, softCapable, softEnabled, rev, physVars, cradle, nextCradle, appPhase>>

\* initPhysics after `await window.AmmoReadyPromise`: the first ready reaction
initPhysics ==
  /\ microtasks # <<>>
  /\ Head(microtasks).k = "physics"
  /\ LET k == Head(microtasks)
     IN /\ IF ammo = "failed"
           THEN /\ microtasks' = Append(Tail(microtasks), [k EXCEPT !.k = "system", !.factory = "null"])
                /\ UNCHANGED physVars
           ELSE /\ microtasks' = Append(Tail(microtasks), [k EXCEPT !.k = "system", !.factory = "world"])
                /\ Install(initPhysicsWorld(Phys))
        /\ last' = [NoLast EXCEPT !.op = "initPhysics", !.loaded = k.loaded,
                                  !.factory = IF ammo = "failed" THEN "null" ELSE "world"]
  /\ UNCHANGED <<fnVars, envVars, cradle, nextCradle, appPhase, waiting>>

\* initPhysicsSystem after `await initPhysics()`
initPhysicsSystem ==
  /\ microtasks # <<>>
  /\ Head(microtasks).k = "system"
  /\ LET k == Head(microtasks)
     IN \E outs \in [1..k.c.n -> RopeOutcomes], ro \in RigidOutcomes :
          LET r == initPhysicsSystemRest(Phys, k.factory, k.c, outs, ro)
          IN /\ Install(r.p)
             /\ microtasks' = Append(Tail(microtasks), [k EXCEPT !.k = "caller", !.ok = r.ret])
             /\ last' = [NoLast EXCEPT !.op = "initPhysicsSystem", !.ret = r.ret,
                                       !.loaded = k.loaded, !.factory = k.factory,
                                       !.built = r.p.nextBuild > nextBuild,
                                       !.c = k.c.id,
                                       !.outs = IF r.ret /\ softCapable /\ softEnabled
                                                THEN outs ELSE <<>>,
                                       !.cleared =
                                         IF k.factory # "null" /\ k.c.id # 0 /\ physics
                                         THEN Cardinality(clearBodies_removed(Phys)) ELSE 0,
                                       !.foreign =
                                         IF k.factory # "null" /\ k.c.id # 0 /\ physics
                                         THEN Cardinality(clearBodies_foreign(Phys)) ELSE 0,
                                       !.faults = \/ ro # "ok"
                                                  \/ \E i \in 1..k.c.n : outs[i] # "ok"
                                                  \/ last.op = "initPhysicsSystem" /\ last.faults]
  /\ UNCHANGED <<fnVars, envVars, cradle, nextCradle, appPhase, waiting>>

\* init or handleRestart after `await initPhysicsSystem(cradle)`; twice and
\* prevRet tell that the reaction before this one was the return of another
\* restart, and what it returned; faults, that an engine call failed in one of
\* the rebuilds that ran before
afterInitPhysicsSystem ==
  /\ microtasks # <<>>
  /\ Head(microtasks).k = "caller"
  /\ LET k == Head(microtasks)
     IN /\ appPhase' = IF k.kind = "init"
                       THEN (IF k.ok THEN "running" ELSE "failed")
                       ELSE appPhase
        /\ last' = [NoLast EXCEPT !.op = k.kind, !.ret = k.ok, !.loaded = k.loaded,
                                  !.c = k.c.id,
                                  !.twice = last.op = "restart",
                                  !.prevRet = last.op = "restart" /\ last.ret,
                                  !.faults = last.faults]
  /\ microtasks' = Tail(microtasks)
  /\ UNCHANGED <<fnVars, envVars, physVars, cradle, nextCradle, waiting>>

\* the work of one frame, in the order it is done: "step" is stepSimulation,
\* "sync" the copy of the ball transforms, "strings" the copy of the string
\* state, "render" renderer.render
SceneRevisions == {"part_003", "part_004"}

\* scene.js updateScene: part_003 moves the strings and renders, part_004 is empty
updateScene_work(sceneRev) ==
  IF sceneRev = "part_003" THEN <<"strings", "render">> ELSE <<>>

\* index.js updatePhysics: a throw of the step or of the ball sync skips the rest
updatePhysics_work(p, failure) ==
  IF ~p.initialized THEN <<>>
  ELSE (IF stepPhysics(p, defaultDeltaTime, failure).passed # -1 THEN <<"step">> ELSE <<>>)
       \o (IF failure = "step" THEN <<>>
           ELSE <<"sync">> \o (IF failure # "sync" /\ p.stringPhysics THEN <<"strings">> ELSE <<>>))

\* softBodies.js updateSoftBodyStrings: the rope read for string_i, for each
\* i the loop visits; the loop pairs softBodies[i] with strings[i] and balls[i]
updateSoftBodyStrings_ropes(p, c) ==
  [i \in 1..Min(Len(p.softBodies), c.n) |-> p.softBodies[i]]

\* the same frame with the render moved to the front
animate_work_renderFirst(p, c, failure, sceneRev) ==
  <<"render">> \o (IF c.id # 0 THEN updatePhysics_work(p, failure) ELSE <<>>)
              \o updateScene_work(sceneRev)

\* main.js animate: updatePhysics, updateScene, controls.update, renderer.render
animate_work(p, c, failure, sceneRev) ==
  (IF c.id # 0 THEN updatePhysics_work(p, failure) ELSE <<>>)
    \o updateScene_work(sceneRev) \o <<"render">>

\* part_008 animate: step, ball sync, string update, updateScene; a throw
\* leaves the callback
animate_legacy_work(p, failure, sceneRev) ==
  (IF p.physicsWorld # 0 THEN <<"step">> ELSE <<>>)
    \o (IF failure = "step" /\ p.physicsWorld # 0 THEN <<>>
        ELSE <<"sync">> \o
             (IF syncPhysicsObjects_legacy(p, failure) THEN <<>>
              ELSE <<"strings">> \o
                   (IF updateStringPhysics_legacy(p, failure) THEN <<>>
                    ELSE updateScene_work(sceneRev))))

\* the same with a frame callback that may run between two reactions
frameCallbackDue_anytime(queue) == TRUE

\* requestAnimationFrame(animate): the callback is a task of its own, it runs
\* when no promise reaction is ready
frameCallbackDue(queue) == queue = <<>>

\* a restart whose handleRestart has not returned from its await
RestartInFlight == \E k \in Range(microtasks \o waiting) : k.kind = "restart"

\* animate: one frame of the running loop; d is the real time since the last
\* frame, which the callback does not measure: updatePhysics(cradle) is called
\* without a delta
animate ==
  /\ appPhase = "running"
  /\ frameCallbackDue(microtasks)
  /\ \E d \in Deltas, failure \in FrameFailures, sceneRev \in SceneRevisions :
       LET r == IF cradle.id # 0
                THEN updatePhysics(Phys, cradle, defaultDeltaTime, failure)
                ELSE [passed |-> -1, threw |-> FALSE]
       IN last' = [NoLast EXCEPT !.op = "animate", !.d = d, !.failure = failure,
                                 !.passed = r.passed, !.threw = r.threw,
                                 !.stepped = r.passed # -1,
                                 !.work = animate_work(Phys, cradle, failure, sceneRev),
                                 !.ropes =
                                   IF cradle.id # 0
                                      /\ "strings" \in Range(updatePhysics_work(Phys, failure))
                                   THEN updateSoftBodyStrings_ropes(Phys, cradle)
                                   ELSE <<>>]
  /\ UNCHANGED <<fnVars, envVars, physVars, appVars>>

Init ==
  /\ ammo \in {"absent", "loading", "ready"}
  /\ softCapable \in BOOLEAN
  /\ softEnabled = TRUE
  /\ rev = "modular"
  /\ PhysIs(PhysInit)
  /\ cradle = NoCradle
  /\ nextCradle = 0
  /\ appPhase = "start"
  /\ microtasks = <<>>
  /\ waiting = <<>>
  /\ last = NoLast
  /\ controls = NoControls
  /\ arg = NoArg
  /\ out = NoOut

Next ==
  \/ init
  \/ handleRestart
  \/ handleSettingsChange
  \/ ammoScriptLoads
  \/ ammoSettles
  \/ initPhysics
  \/ initPhysicsSystem
  \/ afterInitPhysicsSystem
  \/ animate

Spec == Init /\ [][Next]_vars

\* ------------------------------------------------ the builders, called directly
\* The exported factory and builder functions called in any order, as a caller
\* of the module may: before a world exists, twice in a row, on a new cradle.
RigidCount(p) == IF p.physicsWorld = 0 THEN 0 ELSE Cardinality(p.rigid[p.physicsWorld])

\* the world factory has completed
callInitPhysics ==
  /\ nextWorld < MaxWorlds
  /\ Install(IF rev = "legacy" THEN initPhysics_legacy(Phys) ELSE initPhysicsWorld(Phys))
  /\ last' = [NoLast EXCEPT !.op = "initPhysics", !.loaded = TRUE, !.factory = "world"]
  /\ UNCHANGED <<fnVars, envVars, appVars>>

\* createCradle
callCreateCradle ==
  /\ nextCradle < MaxCradles
  /\ \E n \in 1..MaxBalls : cradle' = [id |-> nextCradle + 1, n |-> n]
  /\ nextCradle' = nextCradle + 1
  /\ last' = [NoLast EXCEPT !.op = "createCradle"]
  /\ UNCHANGED <<fnVars, envVars, physVars, appPhase, microtasks, waiting>>

builderLast(r) ==
  [NoLast EXCEPT !.op = "createPhysicsBodies",
                 !.ret = r.ret,
                 !.c = cradle.id,
                 !.absent = ~physics \/ physicsWorld = 0,
                 !.twice = last.op = "createPhysicsBodies" /\ last.ret /\ last.c = cradle.id,
                 !.built = r.p.rigid # rigid \/ r.p.ballBodies # ballBodies
                           \/ r.p.frameBodies # frameBodies,
                 !.balls = Len(r.p.ballBodies),
                 !.frames = Len(r.p.frameBodies),
                 !.world = RigidCount(r.p),
                 !.prevBalls = Len(ballBodies),
                 !.prevFrames = Len(frameBodies),
                 !.prevWorld = RigidCount(Phys)]

\* createPhysicsBodies(cradle) of rigidBodies.js
callCreatePhysicsBodies ==
  /\ rev = "modular"
  /\ cradle.id # 0
  /\ nextBuild < MaxBuilds
  /\ \E ro \in RigidOutcomes :
       LET r == createPhysicsBodies(Phys, cradle, ro)
       IN Install(r.p) /\ last' = builderLast(r)
  /\ UNCHANGED <<fnVars, envVars, appVars>>

\* createPhysicsBodies(cradle) of the legacy physics.js
callCreatePhysicsBodies_legacy ==
  /\ rev = "legacy"
  /\ cradle.id # 0
  /\ nextBuild < MaxBuilds
  /\ LET r == createPhysicsBodies_legacy(Phys, cradle)
     IN Install(r.p) /\ last' = builderLast(r)
  /\ UNCHANGED <<fnVars, envVars, appVars>>

\* clearPhysicsWorld of core.js
callClearPhysicsWorld ==
  /\ rev = "modular"
  /\ RigidCount(Phys) > 0
  /\ Install(clearPhysicsWorld(Phys))
  /\ last' = [NoLast EXCEPT !.op = "clearPhysicsWorld", !.had = LiveCount(Phys)]
  /\ UNCHANGED <<fnVars, envVars, appVars>>

InitBuilder ==
  /\ ammo = "ready"
  /\ softCapable \in BOOLEAN
  /\ softEnabled = TRUE
  /\ rev \in {"modular", "legacy"}
  /\ PhysIs(PhysInit)
  /\ cradle = NoCradle
  /\ nextCradle = 0
  /\ appPhase = "start"
  /\ microtasks = <<>>
  /\ waiting = <<>>
  /\ last = NoLast
  /\ controls = NoControls
  /\ arg = NoArg
  /\ out = NoOut

NextBuilder ==
  \/ callInitPhysics
  \/ callCreateCradle
  \/ callCreatePhysicsBodies
  \/ callCreatePhysicsBodies_legacy
  \/ callClearPhysicsWorld

SpecBuilder == InitBuilder /\ [][NextBuilder]_vars

\* ------------------------------------------- the legacy application (part_008)
\* init up to `await initPhysics()`
init_legacy ==
  /\ appPhase = "start"
  /\ appPhase' = "initializing"
  /\ last' = [NoLast EXCEPT !.op = "init"]
  /\ UNCHANGED <<fnVars, envVars, physVars, cradle, nextCradle, microtasks, waiting>>

\* init after the await: without a module the factory result is null and init
\* returns; otherwise the cradle and its bodies are made and the loop starts
init_legacy_resume ==
  /\ appPhase = "initializing"
  /\ IF ammo # "ready"
     THEN /\ appPhase' = "failed"
          /\ last' = [NoLast EXCEPT !.op = "init", !.factory = "null"]
          /\ UNCHANGED <<fnVars, physVars, cradle, nextCradle>>
     ELSE \E n \in 1..MaxBalls :
            LET c == [id |-> nextCradle + 1, n |-> n]
                r == createPhysicsBodies_legacy(initPhysics_legacy(Phys), c)
            IN /\ Install(r.p)
               /\ cradle' = c
               /\ nextCradle' = nextCradle + 1
               /\ appPhase' = "running"
               /\ last' = [NoLast EXCEPT !.op = "init", !.ret = TRUE, !.loaded = TRUE,
                                         !.factory = "world", !.built = TRUE]
  /\ UNCHANGED <<fnVars, envVars, microtasks, waiting>>

\* animate: the next frame is requested first, then the step, the sync and the
\* string update run unguarded
animate_legacy ==
  /\ appPhase = "running"
  /\ \E d \in Deltas, failure \in FrameFailures, sceneRev \in SceneRevisions :
       LET cappedDelta == Min(d, maxDelta)
           st == stepPhysics_legacy(Phys, cappedDelta, failure)
           raised == st.raised \/ syncPhysicsObjects_legacy(Phys, failure)
                     \/ updateStringPhysics_legacy(Phys, failure)
       IN last' = [NoLast EXCEPT !.op = "animate", !.d = d, !.failure = failure,
                                 !.passed = st.passed, !.threw = raised,
                                 !.stepped = st.passed # -1,
                                 !.work = animate_legacy_work(Phys, failure, sceneRev)]
  /\ UNCHANGED <<fnVars, envVars, physVars, appVars>>

InitFrame ==
  /\ ammo \in {"absent", "ready", "failed"}
  /\ softCapable \in BOOLEAN
  /\ softEnabled = TRUE
  /\ rev = "legacy"
  /\ PhysIs(PhysInit)
  /\ cradle = NoCradle
  /\ nextCradle = 0
  /\ appPhase = "start"
  /\ microtasks = <<>>
  /\ waiting = <<>>
  /\ last = NoLast
  /\ controls = NoControls
  /\ arg = NoArg
  /\ out = NoOut

NextFrame ==
  \/ init_legacy
  \/ init_legacy_resume
  \/ animate_legacy

SpecFrame == InitFrame /\ [][NextFrame]_vars

\* ------------------------------------------- the per-frame string update
\* A node read is a position pt = <<x, y>>, with ok false when a coordinate is
\* not finite.
\* The string hangs from <<x, startY>> on the top frame to <<x, endY>> on the ball.
StringEnds == [x |-> 0, startY |-> 12, endY |-> 0]
Points == {<<0, 12>>, <<1, 6>>, <<0, 0>>}
NodeValues == {[ok |-> TRUE, pt |-> q] : q \in Points} \cup {[ok |-> FALSE, pt |-> <<0, 0>>]}
NodeReads(n) == [1..n -> NodeValues]
SyncRevisions == {"softBodies", "part_015", "part_014"}

isFinitePosition(v) == v.ok
hasValidPositions(nodes) == \E j \in 1..Len(nodes) : isFinitePosition(nodes[j])

\* the point at t = j / (numNodes - 1) of the straight line, j counted from 0
interpolated(j, numNodes) ==
  <<StringEnds.x,
    StringEnds.startY + ((StringEnds.endY - StringEnds.startY) * j) \div (numNodes - 1)>>

RECURSIVE positions_copyPrevious(_, _, _)
\* softBodies.js and part_015: an invalid node takes the entry written before
\* it, the first node the interpolated point
positions_copyPrevious(nodes, j, acc) ==
  IF j > Len(nodes) THEN acc
  ELSE positions_copyPrevious(nodes, j + 1,
         Append(acc, IF isFinitePosition(nodes[j]) THEN nodes[j].pt
                     ELSE IF j > 1 THEN acc[j - 1]
                     ELSE interpolated(j - 1, Len(nodes))))

\* part_014: an invalid node takes the interpolated point
positions_interpolated(nodes) ==
  [j \in 1..Len(nodes) |->
     IF isFinitePosition(nodes[j]) THEN nodes[j].pt ELSE interpolated(j - 1, Len(nodes))]

\* updateStringGeometry: the buffer is replaced or overwritten, the string shown
updateStringGeometry(o, positions) ==
  [o EXCEPT !.polyline = positions, !.visible = TRUE, !.written = TRUE]

\* createFallbackStringGeometry: the two-point line from the frame to the ball
createFallbackStringGeometry(o) ==
  updateStringGeometry(o, << <<StringEnds.x, StringEnds.startY>>,
                            <<StringEnds.x, StringEnds.endY>> >>)

\* the body of the loop of updateSoftBodyStrings for one string, per revision
updateSoftBodyStrings_sb(o, nodes) ==
  IF Len(nodes) = 0 THEN o
  ELSE IF hasValidPositions(nodes)
       THEN [o EXCEPT !.polyline = positions_copyPrevious(nodes, 1, <<>>),
                      !.visible = TRUE, !.written = TRUE]
       ELSE [o EXCEPT !.visible = FALSE]

updateSoftBodyStrings_p15(o, nodes) ==
  IF Len(nodes) = 0 THEN createFallbackStringGeometry(o)
  ELSE IF hasValidPositions(nodes)
       THEN updateStringGeometry(o, positions_copyPrevious(nodes, 1, <<>>))
       ELSE createFallbackStringGeometry(o)

updateSoftBodyStrings_p14(o, nodes) ==
  IF Len(nodes) = 0 THEN createFallbackStringGeometry(o)
  ELSE updateStringGeometry(o, positions_interpolated(nodes))

\* one frame's update of one string whose rope has arg.n nodes: softBodies.js
updateSoftBodyStrings_softBodies ==
  /\ arg.op = "sync"
  /\ arg.rev = "softBodies"
  /\ \E nodes \in NodeReads(arg.n) :
       /\ arg' = [arg EXCEPT !.nodes = nodes, !.frames = 1]
       /\ out' = updateSoftBodyStrings_sb([out EXCEPT !.written = FALSE], nodes)
  /\ UNCHANGED <<envVars, physVars, appVars, last, controls>>

\* the same frame in part_015
updateSoftBodyStrings_part_015 ==
  /\ arg.op = "sync"
  /\ arg.rev = "part_015"
  /\ \E nodes \in NodeReads(arg.n) :
       /\ arg' = [arg EXCEPT !.nodes = nodes, !.frames = 1]
       /\ out' = updateSoftBodyStrings_p15([out EXCEPT !.written = FALSE], nodes)
  /\ UNCHANGED <<envVars, physVars, appVars, last, controls>>

\* the same frame in part_014
updateSoftBodyStrings_part_014 ==
  /\ arg.op = "sync"
  /\ arg.rev = "part_014"
  /\ \E nodes \in NodeReads(arg.n) :
       /\ arg' = [arg EXCEPT !.nodes = nodes, !.frames = 1]
       /\ out' = updateSoftBodyStrings_p14([out EXCEPT !.written = FALSE], nodes)
  /\ UNCHANGED <<envVars, physVars, appVars, last, controls>>

InitSync ==
  /\ ammo = "ready"
  /\ softCapable = TRUE
  /\ softEnabled = TRUE
  /\ rev = "modular"
  /\ PhysIs(PhysInit)
  /\ cradle = NoCradle
  /\ nextCradle = 0
  /\ appPhase = "running"
  /\ microtasks = <<>>
  /\ waiting = <<>>
  /\ last = NoLast
  /\ controls = NoControls
  /\ \E r \in SyncRevisions, n \in 2..MaxNodes :
       arg = [op |-> "sync", rev |-> r, n |-> n, nodes |-> <<>>, frames |-> 0]
  /\ out = [op |-> "sync", visible |-> TRUE, written |-> FALSE,
            polyline |-> << <<StringEnds.x, StringEnds.startY>>,
                            <<StringEnds.x, StringEnds.endY>> >>]

NextSync ==
  \/ updateSoftBodyStrings_softBodies
  \/ updateSoftBodyStrings_part_015
  \/ updateSoftBodyStrings_part_014

SpecSync == InitSync /\ [][NextSync]_vars

\* ------------------------------------------------ the node masses of a rope
\* An inverse mass is a fraction <<numerator, denominator>>.  The configured
\* rope mass (physicsConfig.softBody.mass) is counted in thousandths.
Masses == {1, 10, 70, 100}
RopeRevisions == {"part_014", "part_014b", "part_015", "part_017"}
Zero == <<0, 1>>
One == <<1, 1>>
IsPositive(q) == q[1] > 0 /\ q[2] > 0

\* createStringPhysics passes fixedPoints = [0, 1]
fixedPoints == {0, 1}

\* part_014 createSoftBodyRope: node 0 fixed, the last node 1.0, the nodes
\* between 0.3 + 0.7 * i / (numNodes - 1); i counted from 0
nodeInverseMass_p14(i, numNodes, mass) ==
  IF i = 0 THEN Zero
  ELSE IF i = numNodes - 1 THEN One
  ELSE <<3 * (numNodes - 1) + 7 * i, 10 * (numNodes - 1)>>

\* the later createSoftBodyRope of part_014: 0, 1.0 and 0.5 between
nodeInverseMass_p14b(i, numNodes, mass) ==
  IF i = 0 THEN Zero
  ELSE IF i = numNodes - 1 THEN One
  ELSE <<1, 2>>

\* part_015 createSoftBodyRope: the nodes whose index is in fixedPoints are
\* fixed, the others get 1 / (mass / numNodes)
nodeInverseMass_p15(i, numNodes, mass) ==
  IF i \notin fixedPoints THEN <<1000 * numNodes, mass>> ELSE Zero

\* part_017 createSoftBodyRope: both end nodes fixed, 1.0 between
nodeInverseMass_p17(i, numNodes, mass) ==
  IF i = 0 \/ i = numNodes - 1 THEN Zero ELSE One

\* the loop over the nodes of createSoftBodyRope, one action per revision
createSoftBodyRope_part_014 ==
  /\ arg.op = "rope" /\ arg.rev = "part_014" /\ ~out.done
  /\ out' = [out EXCEPT !.done = TRUE,
                        !.im = [j \in 1..arg.n |-> nodeInverseMass_p14(j - 1, arg.n, arg.mass)]]
  /\ UNCHANGED <<arg, envVars, physVars, appVars, last, controls>>

createSoftBodyRope_part_014b ==
  /\ arg.op = "rope" /\ arg.rev = "part_014b" /\ ~out.done
  /\ out' = [out EXCEPT !.done = TRUE,
                        !.im = [j \in 1..arg.n |-> nodeInverseMass_p14b(j - 1, arg.n, arg.mass)]]
  /\ UNCHANGED <<arg, envVars, physVars, appVars, last, controls>>

createSoftBodyRope_part_015 ==
  /\ arg.op = "rope" /\ arg.rev = "part_015" /\ ~out.done
  /\ out' = [out EXCEPT !.done = TRUE,
                        !.im = [j \in 1..arg.n |-> nodeInverseMass_p15(j - 1, arg.n, arg.mass)]]
  /\ UNCHANGED <<arg, envVars, physVars, appVars, last, controls>>

createSoftBodyRope_part_017 ==
  /\ arg.op = "rope" /\ arg.rev = "part_017" /\ ~out.done
  /\ out' = [out EXCEPT !.done = TRUE,
                        !.im = [j \in 1..arg.n |-> nodeInverseMass_p17(j - 1, arg.n, arg.mass)]]
  /\ UNCHANGED <<arg, envVars, physVars, appVars, last, controls>>

InitRope ==
  /\ ammo = "ready"
  /\ softCapable = TRUE
  /\ softEnabled = TRUE
  /\ rev = "modular"
  /\ PhysIs(PhysInit)
  /\ cradle = NoCradle
  /\ nextCradle = 0
  /\ appPhase = "running"
  /\ microtasks = <<>>
  /\ waiting = <<>>
  /\ last = NoLast
  /\ controls = NoControls
  /\ \E r \in RopeRevisions, n \in 2..MaxRopeNodes, m \in Masses :
       arg = [op |-> "rope", rev |-> r, n |-> n, mass |-> m]
  /\ out = [op |-> "rope", done |-> FALSE, im |-> <<>>]

NextRope ==
  \/ createSoftBodyRope_part_014
  \/ createSoftBodyRope_part_014b
  \/ createSoftBodyRope_part_015
  \/ createSoftBodyRope_part_017

SpecRope == InitRope /\ [][NextRope]_vars

\* ------------------------------------------- the node positions of a rope
\* A position is the point a fraction num/den of the way from startPoint to
\* endPoint, or the origin of the frame body or of the ball body.  The ball
\* hangs below the frame, so startPoint and endPoint differ.
NodeRevisions == {"softBodies", "part_014"}
Lerp(num, den) == [kind |-> "lerp", num |-> num, den |-> den]
EndPoint == Lerp(1, 1)
FramePos == [kind |-> "frame", num |-> 0, den |-> 1]
BallPos == [kind |-> "ball", num |-> 0, den |-> 1]
SamePoint(a, b) == a.kind = b.kind /\ a.num * b.den = b.num * a.den

\* the loop over the nodes: node i (from 0) is put at i / (numNodes - 1) of the
\* way, as position m_x and as previous position m_q
nodeLoop(numNodes) == [j \in 1..numNodes |-> Lerp(j - 1, numNodes - 1)]

\* softBodies.js createSoftBodyRope: after the loop the node of index
\* numSegments - 1 is moved to endPoint by set_m_x alone
nodePositions_softBodies(numNodes, numSegments) ==
  [x |-> [nodeLoop(numNodes) EXCEPT ![numSegments] = EndPoint],
   q |-> nodeLoop(numNodes)]

\* part_014 createSoftBodyRope: after the loop the first node is moved to the
\* frame body and the last to the ball body, by set_m_x and set_m_q
nodePositions_p14(numNodes, numSegments) ==
  LET moved == [nodeLoop(numNodes) EXCEPT ![1] = FramePos, ![numNodes] = BallPos]
  IN [x |-> moved, q |-> moved]

createSoftBodyRope_nodes_softBodies ==
  /\ arg.op = "nodes" /\ arg.rev = "softBodies" /\ ~out.done
  /\ LET r == nodePositions_softBodies(arg.n, arg.seg)
     IN out' = [out EXCEPT !.done = TRUE, !.x = r.x, !.q = r.q]
  /\ UNCHANGED <<arg, envVars, physVars, appVars, last, controls>>

createSoftBodyRope_nodes_part_014 ==
  /\ arg.op = "nodes" /\ arg.rev = "part_014" /\ ~out.done
  /\ LET r == nodePositions_p14(arg.n, arg.seg)
     IN out' = [out EXCEPT !.done = TRUE, !.x = r.x, !.q = r.q]
  /\ UNCHANGED <<arg, envVars, physVars, appVars, last, controls>>

\* n is the number of nodes of the rope the engine returned, seg the
\* numSegments the caller asked for; the rope has a node of index seg - 1
InitNodes ==
  /\ ammo = "ready"
  /\ softCapable = TRUE
  /\ softEnabled = TRUE
  /\ rev = "modular"
  /\ PhysIs(PhysInit)
  /\ cradle = NoCradle
  /\ nextCradle = 0
  /\ appPhase = "running"
  /\ microtasks = <<>>
  /\ waiting = <<>>
  /\ last = NoLast
  /\ controls = NoControls
  /\ \E r \in NodeRevisions, n \in 2..MaxRopeNodes :
       \E seg \in 1..n : arg = [op |-> "nodes", rev |-> r, n |-> n, seg |-> seg]
  /\ out = [op |-> "nodes", done |-> FALSE, x |-> <<>>, q |-> <<>>]

NextNodes ==
  \/ createSoftBodyRope_nodes_softBodies
  \/ createSoftBodyRope_nodes_part_014

SpecNodes == InitNodes /\ [][NextNodes]_vars

\* ------------------------------------- the world factory and its probes
\* The soft-body entry points a build of the physics module may or may not have.
EntryPoints == {"btSoftBodyHelpers", "btSoftBodyWorldInfo", "btSoftRigidDynamicsWorld",
                "btSoftBodyRigidBodyCollisionConfiguration"}
FactoryRevisions == {"core", "index", "legacy", "checkammo"}

\* checkSoftBodyCapability of core.js (and of the copy in index.js): three probes
checkSoftBodyCapability_probes(present) ==
  {"btSoftBodyHelpers", "btSoftBodyWorldInfo", "btSoftRigidDynamicsWorld"} \subseteq present

\* the probe inside the legacy initPhysics, and the checks of checkammo.js: four
hasSoftBodySupport_legacy(present) == EntryPoints \subseteq present

\* `new physics.X(...)` throws when X is not in the build
Constructs(present, entry) == entry \in present

\* probe is the value the revision computes for hasSoftBodySupport; flag is
\* the hasSoftBodySupport of the result returned, "none" when there is none
FactoryResult(probe, result, world, flag) ==
  [op |-> "factory", done |-> TRUE, probe |-> probe,
   result |-> result, world |-> world, flag |-> flag]

\* initPhysics of core.js once the module is loaded
initPhysics_core(present) ==
  LET softBodyCapable == checkSoftBodyCapability_probes(present)
  IN IF softBodyCapable
     THEN IF Constructs(present, "btSoftBodyRigidBodyCollisionConfiguration")
          THEN FactoryResult(softBodyCapable, "world", "soft", "true")
          ELSE FactoryResult(softBodyCapable, "null", "none", "none")
     ELSE FactoryResult(softBodyCapable, "world", "rigid", "false")

\* initPhysics of the second revision kept in index.js
initPhysics_index(present) ==
  LET softBodyCapable == checkSoftBodyCapability_probes(present)
  IN IF ~softBodyCapable THEN FactoryResult(softBodyCapable, "null", "none", "none")
     ELSE IF Constructs(present, "btSoftBodyRigidBodyCollisionConfiguration")
          THEN FactoryResult(softBodyCapable, "world", "soft", "true")
          ELSE FactoryResult(softBodyCapable, "null", "none", "none")

\* initPhysics of the legacy physics.js: always a rigid-only world
initPhysics_legacyFactory(present) ==
  FactoryResult(hasSoftBodySupport_legacy(present), "world", "rigid",
                IF hasSoftBodySupport_legacy(present) THEN "true" ELSE "false")

\* checkAmmoSoftBodySupport: a report, no world is kept
checkAmmoSoftBodySupport(present) ==
  FactoryResult(hasSoftBodySupport_legacy(present), "report", "none",
                IF hasSoftBodySupport_legacy(present) THEN "true" ELSE "false")

callInitPhysics_core ==
  /\ arg.op = "factory" /\ arg.rev = "core" /\ ~out.done
  /\ out' = initPhysics_core(arg.present)
  /\ UNCHANGED <<arg, envVars, physVars, appVars, last, controls>>

callInitPhysics_index ==
  /\ arg.op = "factory" /\ arg.rev = "index" /\ ~out.done
  /\ out' = initPhysics_index(arg.present)
  /\ UNCHANGED <<arg, envVars, physVars, appVars, last, controls>>

callInitPhysics_legacy ==
  /\ arg.op = "factory" /\ arg.rev = "legacy" /\ ~out.done
  /\ out' = initPhysics_legacyFactory(arg.present)
  /\ UNCHANGED <<arg, envVars, physVars, appVars, last, controls>>

callCheckAmmoSoftBodySupport ==
  /\ arg.op = "factory" /\ arg.rev = "checkammo" /\ ~out.done
  /\ out' = checkAmmoSoftBodySupport(arg.present)
  /\ UNCHANGED <<arg, envVars, physVars, appVars, last, controls>>

InitFactory ==
  /\ ammo = "ready"
  /\ softCapable = TRUE
  /\ softEnabled = TRUE
  /\ rev = "modular"
  /\ PhysIs(PhysInit)
  /\ cradle = NoCradle
  /\ nextCradle = 0
  /\ appPhase = "start"
  /\ microtasks = <<>>
  /\ waiting = <<>>
  /\ last = NoLast
  /\ controls = NoControls
  /\ \E r \in FactoryRevisions, present \in SUBSET EntryPoints :
       arg = [op |-> "factory", rev |-> r, present |-> present]
  /\ out = [FactoryResult(FALSE, "none", "none", "none") EXCEPT !.done = FALSE]

NextFactory ==
  \/ callInitPhysics_core
  \/ callInitPhysics_index
  \/ callInitPhysics_legacy
  \/ callCheckAmmoSoftBodySupport

SpecFactory == InitFactory /\ [][NextFactory]_vars

\* ------------------------------------------- the drag controls (controls.js)
\* Time is counted in units of 100 ms.  performance.now() is the clock;
\* new Date().getTime() is the clock shifted by epoch, which is large enough
\* that the first tap is never taken for the second of a pair.
epoch == tapWindow

DragPoints == {<<0, 0, 0>>, <<1, 2, 0>>}

\* what the ray from the pointer meets: no ball (-1), or the last ball
Hits == {-1, MaxBalls - 1}

\* the world-space points and times a sample can hold
Sample(point, time, n) == [position |-> point, time |-> time, n |-> n]

\* createMouseConstraint without the fresh identifier it needs is not taken
FreeDragIds(c) == {i \in 1..MaxDrags : i \notin c.bodies /\ i \notin c.constraints}

\* createMouseConstraint: a kinematic body at the drag point, pinned to the
\* ball by a point constraint; both go into the world and into the module
\* variables, whatever these held
createMouseConstraint(c, ballIndex) ==
  IF ballIndex < 0 \/ ballIndex >= c.nBodies THEN c
  ELSE LET id == CHOOSE i \in FreeDragIds(c) : \A j \in FreeDragIds(c) : i <= j
       IN  [c EXCEPT !.mouseBody = id, !.bodies = @ \cup {id},
                     !.mouseConstraint = id, !.constraints = @ \cup {id}]

\* releaseMouseConstraint: what the module variables hold leaves the world
releaseMouseConstraint(c) ==
  LET c1 == IF c.mouseConstraint # 0
            THEN [c EXCEPT !.constraints = @ \ {c.mouseConstraint}, !.mouseConstraint = 0]
            ELSE c
  IN  IF c1.mouseBody # 0
      THEN [c1 EXCEPT !.bodies = @ \ {c1.mouseBody}, !.mouseBody = 0]
      ELSE c1

\* selectBall: hit is the index of the ball under the pointer, -1 for none
selectBall(c, hit) ==
  IF hit >= 0
  THEN createMouseConstraint(
         [c EXCEPT !.selectedBallIndex = hit, !.isDragging = TRUE,
                   !.lastDragPositions = <<>>, !.pushed = 0], hit)
  ELSE c

\* the same without the shift
updateDragPosition_noShift(c, point) ==
  [c EXCEPT !.lastDragPositions = Append(@, Sample(point, c.now, c.pushed + 1)),
            !.pushed = @ + 1]

\* updateDragPosition: push the sample, drop the oldest beyond maxSamples
updateDragPosition(c, point) ==
  LET pushed == Append(c.lastDragPositions, Sample(point, c.now, c.pushed + 1))
  IN  [c EXCEPT !.lastDragPositions = IF Len(pushed) > maxSamples THEN Tail(pushed) ELSE pushed,
                !.pushed = @ + 1]

NoImpulse == [applied |-> FALSE, ball |-> -1, num |-> <<0, 0, 0>>, den |-> 1]

\* the same with the elapsed time left out
releaseVelocity_noTime(first, latest) ==
  [num |-> [k \in 1..3 |-> releaseScale * (latest.position[k] - first.position[k])],
   den |-> 1]

\* the release velocity, (last - first) * (1000 / dt) * 2, as a fraction
releaseVelocity(first, latest) ==
  [num |-> [k \in 1..3 |-> releaseScale * (latest.position[k] - first.position[k])],
   den |-> latest.time - first.time]

\* applyImpulse of physics.js: only a ball that has a body receives it
applyImpulse_legacy(c, ballIndex, v) ==
  [applied |-> ballIndex >= 0 /\ ballIndex < c.nBodies,
   ball |-> ballIndex, num |-> v.num, den |-> v.den]

\* releaseConstraint: the impulse, the release of the drag body, the reset
releaseConstraint(c) ==
  LET h == c.lastDragPositions
      impulse == IF c.selectedBallIndex >= 0 /\ Len(h) >= 2 /\ h[Len(h)].time - h[1].time > 0
                 THEN applyImpulse_legacy(c, c.selectedBallIndex, releaseVelocity(h[1], h[Len(h)]))
                 ELSE NoImpulse
  IN  [c |-> [releaseMouseConstraint(c) EXCEPT !.isDragging = FALSE, !.selectedBallIndex = -1,
                                                !.lastDragPositions = <<>>, !.pushed = 0],
       impulse |-> impulse]

\* onMouseUp and onTouchEnd
onPointerUp(c) ==
  IF c.isDragging THEN releaseConstraint(c) ELSE [c |-> c, impulse |-> NoImpulse]

\* startAnimation of part_008: the starting impulse on the first ball
startAnimation(cradleBalls) == cradleBalls > 0

\* the double-tap listener of the canvas
doubleTap(c) ==
  LET currentTime == c.now + epoch
      tapLength == currentTime - c.lastTap
  IN  [c |-> [c EXCEPT !.lastTap = currentTime],
       tapLength |-> tapLength,
       start |-> tapLength < tapWindow /\ tapLength > 0 /\ ~c.isDragging /\ startAnimation(MaxBalls)]

\* the same event with the window's listener run before the canvas's
dispatchTouchEnd_windowFirst(c, onElement) ==
  LET up == onPointerUp(c)
      tap == IF onElement THEN doubleTap(up.c)
             ELSE [c |-> up.c, tapLength |-> 0, start |-> FALSE]
  IN  [c |-> tap.c, impulse |-> up.impulse, start |-> tap.start, tapLength |-> tap.tapLength]

\* a touchend: the canvas's listener when the touch began on the canvas, then
\* the window's onTouchEnd as the event bubbles
dispatchTouchEnd(c, onElement) ==
  LET tap == IF onElement THEN doubleTap(c)
             ELSE [c |-> c, tapLength |-> 0, start |-> FALSE]
      up == onPointerUp(tap.c)
  IN  [c |-> up.c, impulse |-> up.impulse, start |-> tap.start, tapLength |-> tap.tapLength]

\* the oldest and the newest sample of a history
Ends(h) == IF Len(h) >= 2 THEN <<h[1], h[Len(h)]>> ELSE h

\* what an event found and what it did: the drag flag before it, the ball it
\* hit, the ends of the history a pointer-up read, the starting impulse and
\* the release impulse it applied
Event(ev, c, hit, start, tapLength, impulse) ==
  [op |-> "controls", ev |-> ev, wasDragging |-> c.isDragging, hit |-> hit,
   selected |-> c.selectedBallIndex,
   histLen |-> IF ev \in {"mouseup", "touchend"} THEN Len(c.lastDragPositions) ELSE 0,
   hist |-> IF ev \in {"mouseup", "touchend"} THEN Ends(c.lastDragPositions) ELSE <<>>, start |-> start, tapLength |-> tapLength,
   impulse |-> impulse]

CanSelect(c, hit) == hit < 0 \/ hit >= c.nBodies \/ FreeDragIds(c) # {}

tick ==
  /\ out.op = "controls"
  /\ controls.now < MaxClock
  /\ controls' = [controls EXCEPT !.now = @ + 1]
  /\ UNCHANGED <<arg, out, envVars, physVars, appVars, last>>

onMouseDown ==
  /\ out.op = "controls"
  /\ \E hit \in Hits :
       /\ CanSelect(controls, hit)
       /\ controls' = selectBall(controls, hit)
       /\ out' = Event("mousedown", controls, hit, FALSE, 0, NoImpulse)
  /\ UNCHANGED <<arg, envVars, physVars, appVars, last>>

onTouchStart ==
  /\ out.op = "controls"
  /\ \E touches \in 1..MaxTouches :
       IF touches = 1
       THEN \E hit \in Hits :
              /\ CanSelect(controls, hit)
              /\ controls' = selectBall(controls, hit)
              /\ out' = Event("touchstart", controls, hit, FALSE, 0, NoImpulse)
       ELSE /\ controls' = controls
            /\ out' = Event("touchstart", controls, -1, FALSE, 0, NoImpulse)
  /\ UNCHANGED <<arg, envVars, physVars, appVars, last>>

onMouseMove ==
  /\ out.op = "controls"
  /\ controls.pushed < MaxMoves
  /\ \E point \in DragPoints :
       /\ controls' = IF controls.isDragging /\ controls.selectedBallIndex >= 0
                      THEN updateDragPosition(controls, point) ELSE controls
       /\ out' = Event("mousemove", controls, -1, FALSE, 0, NoImpulse)
  /\ UNCHANGED <<arg, envVars, physVars, appVars, last>>

onTouchMove ==
  /\ out.op = "controls"
  /\ controls.pushed < MaxMoves
  /\ \E touches \in 1..MaxTouches :
       IF controls.isDragging /\ controls.selectedBallIndex >= 0 /\ touches = 1
       THEN \E point \in DragPoints :
              /\ controls' = updateDragPosition(controls, point)
              /\ out' = Event("touchmove", controls, -1, FALSE, 0, NoImpulse)
       ELSE /\ controls' = controls
            /\ out' = Event("touchmove", controls, -1, FALSE, 0, NoImpulse)
  /\ UNCHANGED <<arg, envVars, physVars, appVars, last>>

onMouseUp ==
  /\ out.op = "controls"
  /\ LET r == onPointerUp(controls)
     IN  /\ controls' = r.c
         /\ out' = Event("mouseup", controls, -1, FALSE, 0, r.impulse)
  /\ UNCHANGED <<arg, envVars, physVars, appVars, last>>

onTouchEnd ==
  /\ out.op = "controls"
  /\ \E onElement \in BOOLEAN :
       LET r == dispatchTouchEnd(controls, onElement)
       IN  /\ controls' = r.c
           /\ out' = Event("touchend", controls, -1, r.start, r.tapLength, r.impulse)
  /\ UNCHANGED <<arg, envVars, physVars, appVars, last>>

InitControls ==
  /\ ammo = "ready"
  /\ softCapable = FALSE
  /\ softEnabled = FALSE
  /\ rev = "legacy"
  /\ PhysIs(PhysInit)
  /\ cradle = NoCradle
  /\ nextCradle = 0
  /\ appPhase = "start"
  /\ microtasks = <<>>
  /\ waiting = <<>>
  /\ last = NoLast
  /\ arg = NoArg
  /\ out = Event("setupControls", NoControls, -1, FALSE, 0, NoImpulse)
  /\ \E n \in {0, MaxBalls} : controls = [NoControls EXCEPT !.nBodies = n]

NextControls ==
  \/ tick
  \/ onMouseDown
  \/ onTouchStart
  \/ onMouseMove
  \/ onTouchMove
  \/ onMouseUp
  \/ onTouchEnd

SpecControls == InitControls /\ [][NextControls]_vars

\* ------------------------------- the frames of the string update, with its log
\* Time is counted in units of 500 ms.  Date.now() is the clock shifted by
\* logEpoch, so that the first call of shouldLogWarning passes, as it does
\* against lastWarningTime = 0.
logEpoch == warningCooldown + 1

LogRevisions == {"part_015", "softBodies"}

\* a node is read at one finite position, or as not finite
FrameNodeValues == {v \in NodeValues : v.ok => v.pt = <<1, 6>>}

\* what one frame finds for one rope: the node container or a node read
\* throws, the rope has no node, or every node is read
RopeReads ==
  {[kind |-> k, nodes |-> <<>>] : k \in {"throws", "empty"}}
    \cup {[kind |-> "nodes", nodes |-> r] : r \in [1..NumLogNodes -> FrameNodeValues]}

\* a visual string: its geometry, whether this frame wrote it, and what this
\* frame found for its rope ("none" when the loop did not reach it)
NoString ==
  [visible |-> TRUE, written |-> FALSE, read |-> "none",
   polyline |-> << <<StringEnds.x, StringEnds.startY>>, <<StringEnds.x, StringEnds.endY>> >>]

\* loggingState, the clock, and for each string the times of its latest two
\* console.warn / console.error lines
NoLog ==
  [lastWarningTime |-> 0, invalidNodeCounts |-> [i \in 1..MaxBalls |-> 0],
   hasLoggedFallback |-> {}, now |-> 0, warned |-> [i \in 1..MaxBalls |-> <<>>]]

LatestTwo(s) == IF Len(s) > 2 THEN Tail(s) ELSE s

\* console.warn or console.error for string i
Warn(L, i) == [L EXCEPT !.warned[i] = LatestTwo(Append(@, L.now))]

\* shouldLogWarning: one clock for every string and every type
shouldLogWarning(L) == (L.now + logEpoch) - L.lastWarningTime > warningCooldown
logged(L) == [L EXCEPT !.lastWarningTime = L.now + logEpoch]

invalidCount(nodes) == Cardinality({j \in 1..Len(nodes) : ~isFinitePosition(nodes[j])})

\* the fallback line is announced once, until the string recovers
warnFallback(L, i) ==
  IF i \in L.hasLoggedFallback THEN L
  ELSE [Warn(L, i) EXCEPT !.hasLoggedFallback = @ \cup {i}]

\* part_015, the log lines of one string in one frame
logString_p15(L, i, read) ==
  IF read.kind = "throws"
  THEN IF shouldLogWarning(L) THEN Warn(logged(L), i) ELSE L
  ELSE IF read.kind = "empty" THEN warnFallback(L, i)
  ELSE LET count == invalidCount(read.nodes)
           L1 == IF count # L.invalidNodeCounts[i] /\ shouldLogWarning(L)
                 THEN [(IF count > 0 THEN Warn(logged(L), i) ELSE logged(L))
                         EXCEPT !.invalidNodeCounts[i] = count]
                 ELSE L
       IN  IF hasValidPositions(read.nodes)
           THEN [L1 EXCEPT !.hasLoggedFallback = @ \ {i}]
           ELSE warnFallback(L1, i)

RECURSIVE WarnTimes(_, _, _)
WarnTimes(L, i, k) == IF k = 0 THEN L ELSE WarnTimes(Warn(L, i), i, k - 1)

\* softBodies.js, the log lines of one string in one frame: one per invalid
\* node, one when no node is valid, one when a read throws
logString_sb(L, i, read) ==
  IF read.kind = "throws" THEN Warn(L, i)
  ELSE IF read.kind = "empty" THEN L
  ELSE LET L1 == WarnTimes(L, i, invalidCount(read.nodes))
       IN  IF hasValidPositions(read.nodes) THEN L1 ELSE Warn(L1, i)

\* the geometry of one string in one frame
drawString_p15(o, read) ==
  IF read.kind = "throws" THEN createFallbackStringGeometry(o)
  ELSE IF read.kind = "empty" THEN updateSoftBodyStrings_p15(o, <<>>)
  ELSE updateSoftBodyStrings_p15(o, read.nodes)

drawString_sb(o, read) ==
  IF read.kind = "throws" THEN [o EXCEPT !.visible = FALSE]
  ELSE IF read.kind = "empty" THEN updateSoftBodyStrings_sb(o, <<>>)
  ELSE updateSoftBodyStrings_sb(o, read.nodes)

RECURSIVE syncStrings(_, _, _, _, _)
\* the loop of updateSoftBodyStrings over the ropes that softBodies holds:
\* string i is visited only while i is below softBodies.length
syncStrings(revision, i, ropes, reads, st) ==
  IF i > ropes THEN st
  ELSE syncStrings(revision, i + 1, ropes, reads,
         IF revision = "part_015"
         THEN [strings |-> [st.strings EXCEPT ![i] = drawString_p15([@ EXCEPT !.read = reads[i].kind], reads[i])],
               log |-> logString_p15(st.log, i, reads[i])]
         ELSE [strings |-> [st.strings EXCEPT ![i] = drawString_sb([@ EXCEPT !.read = reads[i].kind], reads[i])],
               log |-> logString_sb(st.log, i, reads[i])])

\* updateSoftBodyStrings(cradle) for one frame; softBodies.length = 0 returns
updateSoftBodyStrings_frame(revision, ropes, reads, st) ==
  LET fresh == [st EXCEPT !.strings = [i \in 1..MaxBalls |-> [st.strings[i] EXCEPT !.written = FALSE, !.read = "none"]]]
  IN  IF ropes = 0 THEN fresh ELSE syncStrings(revision, 1, ropes, reads, fresh)

\* Date.now() advances between two frames
tickFrames ==
  /\ arg.op = "frames"
  /\ out.log.now < MaxClock
  /\ out' = [out EXCEPT !.log.now = @ + 1]
  /\ UNCHANGED <<arg, envVars, physVars, appVars, last, controls>>

frame_part_015 ==
  /\ arg.op = "frames"
  /\ arg.rev = "part_015"
  /\ \E reads \in [1..MaxBalls -> RopeReads] :
       /\ arg' = [arg EXCEPT !.frames = 1]
       /\ out' = [op |-> "frames"] @@
                 updateSoftBodyStrings_frame("part_015", arg.ropes, reads,
                                             [strings |-> out.strings, log |-> out.log])
  /\ UNCHANGED <<envVars, physVars, appVars, last, controls>>

frame_softBodies ==
  /\ arg.op = "frames"
  /\ arg.rev = "softBodies"
  /\ \E reads \in [1..MaxBalls -> RopeReads] :
       /\ arg' = [arg EXCEPT !.frames = 1]
       /\ out' = [op |-> "frames"] @@
                 updateSoftBodyStrings_frame("softBodies", arg.ropes, reads,
                                             [strings |-> out.strings, log |-> out.log])
  /\ UNCHANGED <<envVars, physVars, appVars, last, controls>>

InitFrames ==
  /\ ammo = "ready"
  /\ softCapable = TRUE
  /\ softEnabled = TRUE
  /\ rev = "modular"
  /\ PhysIs(PhysInit)
  /\ cradle = NoCradle
  /\ nextCradle = 0
  /\ appPhase = "running"
  /\ microtasks = <<>>
  /\ waiting = <<>>
  /\ last = NoLast
  /\ controls = NoControls
  /\ \E r \in LogRevisions, ropes \in 0..MaxBalls :
       arg = [op |-> "frames", rev |-> r, ropes |-> ropes, frames |-> 0]
  /\ out = [op |-> "frames", strings |-> [i \in 1..MaxBalls |-> NoString], log |-> NoLog]

NextFrames ==
  \/ tickFrames
  \/ frame_part_015
  \/ frame_softBodies

SpecFrames == InitFrames /\ [][NextFrames]_vars

\* ------------------------------------------------------------- claims
\* C1: the delta given to the physics advance of a frame is min(d, 0.2 s)
C1_DeltaClamped ==
  (last.op = "animate" /\ last.stepped) => last.passed = Min(last.d, maxDelta)

\* C7: no frame callback is left by an exception
C7_FrameReturnsNormally ==
  last.op = "animate" => ~last.threw

\* C8: after a frame's update of a string, the string is hidden when no node
\* position was valid and shown when at least one was
C8_VisibleIffValid ==
  (arg.op = "sync" /\ arg.frames > 0) =>
     (out.visible <=> hasValidPositions(arg.nodes))

\* the node indices the property is stated for: 1, N/2 and N-1, counted from 0
CheckedNodes(n) == {1, n \div 2, n - 1} \ {0}

\* C9: a node k > 0 whose position is not finite is written as a copy of the
\* entry before it, in a frame where the node polyline is what is written
C9_CopyPrevious ==
  (arg.op = "sync" /\ arg.frames > 0 /\ out.written /\ hasValidPositions(arg.nodes)) =>
     \A k \in CheckedNodes(arg.n) :
        ~isFinitePosition(arg.nodes[k + 1]) =>
           /\ Len(out.polyline) = arg.n
           /\ out.polyline[k + 1] = out.polyline[k]

\* C10: in a rope of N nodes, node 0 has inverse mass 0, node N-1 a positive
\* inverse mass, and every node between them a positive inverse mass
C10_NodeInverseMasses ==
  (arg.op = "rope" /\ out.done) =>
     /\ out.im[1] = Zero
     /\ IsPositive(out.im[arg.n])
     /\ \A j \in 2..(arg.n - 1) : IsPositive(out.im[j])

\* C11: a rope whose anchor call returned a falsy value is kept: it is live
\* in the world and recorded in the list of live ropes
C11_FalsyAnchorRopeKept ==
  (last.op = "initPhysicsSystem" /\ last.ret) =>
     \A i \in 1..Len(last.outs) :
        last.outs[i] = "anchorFalsy" =>
           /\ Rope(nextBuild, last.c, i) \in soft[physicsWorld]
           /\ Rope(nextBuild, last.c, i) \in Range(softBodies)

\* C12: the factory reports soft-body support exactly when all four entry
\* points are in the module; with one of them missing the flag is false
C12_FlagIffAllFour ==
  (arg.op = "factory" /\ out.done) =>
     (out.probe <=> EntryPoints \subseteq arg.present)

\* the probe the revision's factory runs on the module
ProbeFails ==
  IF arg.rev = "legacy" THEN ~hasSoftBodySupport_legacy(arg.present)
  ELSE ~checkSoftBodyCapability_probes(arg.present)

\* C13: with the module loaded and the capability probe failing, the factory
\* returns a rigid-only world with the flag false
C13_ProbeFailsReducedWorld ==
  (arg.op = "factory" /\ arg.rev # "checkammo" /\ out.done /\ ProbeFails) =>
     (out.result = "world" /\ out.world = "rigid" /\ out.flag = "false")

\* the static anchor and the segmentsPerString segments of ball i's chain
ChainOf(c, i) ==
  {x \in rigid[physicsWorld] :
     /\ x.k = "chain" /\ x.c = c
     /\ (x.i - 1) \div (segmentsPerString + 1) = i - 1}

\* C14: an initialization on an engine without soft-body capability leaves,
\* for every ball, the fallback chain of rigid segments in the world
C14_FallbackChainBuilt ==
  (last.op = "initPhysicsSystem" /\ last.ret /\ ~softCapable /\ cradle.id = last.c) =>
     \A i \in 1..cradle.n : Cardinality(ChainOf(last.c, i)) = segmentsPerString + 1

WorldEmpty ==
  physicsWorld # 0 => (rigid[physicsWorld] = {} /\ soft[physicsWorld] = {})

\* C3: after the teardown (cleanupPhysics) that a restart runs, the current
\* world has no live rigid body and no live soft body
C3_TeardownEmptiesWorld ==
  last.op \in {"handleRestart", "handleSettingsChange"} => WorldEmpty

\* C4: the ropes live in a world all belong to one build of the string manager
C4_OneBuildLive ==
  \A w \in Worlds : \A r1, r2 \in soft[w] : r1.b = r2.b

C2_BuilderIdempotent ==
  (last.op = "createPhysicsBodies" /\ last.twice /\ last.ret) =>
     /\ last.balls = last.prevBalls
     /\ last.frames = last.prevFrames
     /\ last.world = last.prevWorld
     /\ \A x \in rigid[physicsWorld] : x.b = nextBuild

\* C6: called without a world or a module handle, the builder returns null,
\* adds no body and leaves the tracking lists as they were
C6_AbsentWorldNoBuild ==
  (rev = "modular" /\ last.op = "createPhysicsBodies" /\ last.absent) =>
     (~last.ret /\ ~last.built /\ last.world = last.prevWorld
      /\ last.balls = last.prevBalls /\ last.frames = last.prevFrames)

C6_Witness ==
  rev = "modular" /\ last.op = "createPhysicsBodies" /\ last.absent /\ ~last.ret

PointerUp == out.op = "controls" /\ out.ev \in {"mouseup", "touchend"} /\ out.wasDragging

\* C15: at a pointer-up that ends a drag whose history is [(p0,t0), (p1,t1)]
\* with t1 > t0, the ball that was selected receives the impulse
\* releaseScale * (p1 - p0) / (t1 - t0): parallel to p1 - p0 and inversely
\* proportional to the elapsed time
C15_ImpulseParallelScaled ==
  (PointerUp /\ out.histLen = 2 /\ out.hist[2].time > out.hist[1].time
             /\ out.selected < controls.nBodies) =>
     /\ out.impulse.applied
     /\ out.impulse.ball = out.selected
     /\ \A k \in 1..3 :
          out.impulse.num[k] * (out.hist[2].time - out.hist[1].time)
            = releaseScale * (out.hist[2].position[k] - out.hist[1].position[k]) * out.impulse.den

C15_Witness ==
  /\ PointerUp /\ out.histLen = 2 /\ out.impulse.applied
  /\ out.hist[2].time - out.hist[1].time = 2
  /\ out.hist[2].position # out.hist[1].position
  /\ out.impulse.num # <<0, 0, 0>>
\* C16: after every pointer-up that ends a drag no drag anchor body and no
\* drag constraint is left in the world, and the dragging flag, the selected
\* ball and the sample history are reset
C16_DragDestroyedOnUp ==
  PointerUp =>
     /\ controls.bodies = {}
     /\ controls.constraints = {}
     /\ ~controls.isDragging
     /\ controls.selectedBallIndex = -1
     /\ controls.lastDragPositions = <<>>
\* C17: a touchend that arrives while a ball is being dragged applies no
\* starting impulse, however soon after the previous touchend it comes
C17_NoStartWhileDragging ==
  (out.op = "controls" /\ out.ev = "touchend" /\ out.wasDragging) => ~out.start

C17_Witness ==
  /\ out.op = "controls" /\ out.ev = "touchend" /\ out.wasDragging
  /\ out.tapLength > 0 /\ out.tapLength < tapWindow
  /\ ~out.start
  /\ ~controls.isDragging
\* C18: while a ball is dragged the history holds at most maxSamples samples,
\* and they are the latest ones pushed since the drag began, oldest first;
\* right after a pointer-down that selects a ball the history is empty
C18_RollingHistory ==
  /\ controls.isDragging =>
       LET h == controls.lastDragPositions
       IN  /\ Len(h) <= maxSamples
           /\ Len(h) = Min(maxSamples, controls.pushed)
           /\ \A i \in 1..Len(h) : h[i].n = controls.pushed - Len(h) + i
  /\ (out.op = "controls" /\ out.ev \in {"mousedown", "touchstart"} /\ out.hit >= 0) =>
       controls.lastDragPositions = <<>>

C18_Witness ==
  /\ controls.isDragging
  /\ controls.pushed > maxSamples
  /\ Len(controls.lastDragPositions) = maxSamples
  /\ controls.lastDragPositions[1].n = controls.pushed - maxSamples + 1
\* C19: for each string, two log lines of the string update are never less
\* than one cooldown apart, whatever the frames find
C19_OneWarningPerWindow ==
  arg.op = "frames" =>
     \A i \in 1..MaxBalls :
        Len(out.log.warned[i]) = 2 =>
           out.log.warned[i][2] - out.log.warned[i][1] >= warningCooldown

FallbackLine == << <<StringEnds.x, StringEnds.startY>>, <<StringEnds.x, StringEnds.endY>> >>

\* C20: after a frame of the string update, every string whose rope is
\* absent or whose node reads threw has been given the two-point line from
\* the frame attachment point to the ball surface
C20_FallbackLineDrawn ==
  (arg.op = "frames" /\ arg.frames = 1) =>
     \A i \in 1..MaxBalls :
        (i > arg.ropes \/ out.strings[i].read = "throws") =>
           /\ out.strings[i].written
           /\ out.strings[i].polyline = FallbackLine
\* C21: no frame steps or syncs the world while a restart is between the
\* start of its teardown and the completion of its rebuild
C21_NoFrameDuringRestart ==
  (last.op = "animate" /\ last.stepped) => ~RestartInFlight

C21_Witness ==
  /\ last.op = "animate" /\ last.stepped
  /\ nextCradle >= 2
  /\ initialized
  /\ ~RestartInFlight
\* C22: a frame steps the world only when the application's initialization
\* has completed with success, a world exists and (modular tree) the physics
\* system is initialized; once initialization has failed no frame runs
C22_NoStepBeforeInit ==
  /\ (last.op = "animate" /\ last.stepped) =>
        /\ appPhase = "running"
        /\ physicsWorld # 0
        /\ rev = "modular" => initialized
  /\ appPhase \in {"start", "initializing", "failed"} => last.op # "animate"

C22_Witness ==
  /\ last.op = "animate" /\ last.stepped
  /\ appPhase = "running" /\ physicsWorld # 0
  /\ last.passed = defaultDeltaTime
Copies == {"sync", "strings"}

\* C23: in the work of every frame the step comes before every copy of ball
\* or string state, and every copy before every render
C23_StepSyncRender ==
  last.op = "animate" =>
     \A i, j \in 1..Len(last.work) :
        i < j => /\ ~(last.work[i] \in Copies /\ last.work[j] = "step")
                 /\ ~(last.work[i] = "render" /\ last.work[j] \in Copies \cup {"step"})

C23_Witness ==
  /\ last.op = "animate"
  /\ last.work = <<"step", "sync", "strings", "render">>
\* C24: a world that has been replaced by a newer one holds no rigid body and
\* no soft body
C24_DiscardedWorldEmpty ==
  \A w \in Worlds : (w # physicsWorld /\ w <= nextWorld) => (rigid[w] = {} /\ soft[w] = {})
\* the bodies and ropes built from cradle c
OfCradle(c) == {x \in rigid[physicsWorld] \cup soft[physicsWorld] : x.c = c}

\* both restarts of one settings change have returned, each with success
BothRestartsDone ==
  /\ last.op = "restart" /\ last.twice /\ microtasks = <<>> /\ waiting = <<>>
  /\ last.ret /\ last.prevRet

\* C25: when the two restarts of one settings change have both finished
\* (each reporting success), the system is initialized, the tracked bodies and ropes are the ones built from
\* the cradle in the scene, they are in the current world, and the current
\* world holds nothing built from another cradle
C25_DoubleRestartConverges ==
  BothRestartsDone =>
     /\ initialized
     /\ \A x \in Range(ballBodies) \cup Range(frameBodies) \cup Range(softBodies) : x.c = cradle.id
     /\ Range(ballBodies) \cup Range(frameBodies) \subseteq rigid[physicsWorld]
     /\ Range(softBodies) \subseteq soft[physicsWorld]
     /\ Len(ballBodies) = cradle.n
     /\ rigid[physicsWorld] \cup soft[physicsWorld] = OfCradle(cradle.id)
\* C26: whenever the rigid body builder clears its tracked ball and frame
\* lists during a rebuild, every body it removes from the current world is a
\* member of that world (none belongs to a world torn down or replaced before)
C26_ClearedBodiesInWorld ==
  last.op = "initPhysicsSystem" => last.foreign = 0

\* C27: at any time at most one drag anchor body and at most one drag
\* constraint exist in the world, whatever the order of pointer-down,
\* pointer-move and pointer-up events
C27_OneDragAnchor ==
  /\ Cardinality(controls.bodies) <= 1
  /\ Cardinality(controls.constraints) <= 1

\* C28: in the string sync of a frame, the rope read to rewrite string_i is
\* the rope that was built for ball_i of the cradle in the scene
C28_RopeOfBall ==
  last.op = "animate" =>
     \A i \in 1..Len(last.ropes) :
        /\ last.ropes[i].i = i
        /\ last.ropes[i].c = cradle.id

\* C29: when a rope has been built, the previous position of every node
\* equals its position, the repositioned end nodes included
C29_PreviousEqualsCurrent ==
  (arg.op = "nodes" /\ out.done) =>
     \A j \in 1..arg.n : SamePoint(out.x[j], out.q[j])

\* C30: between operations the list of live ropes holds exactly the soft
\* bodies of the current world: every rope in the world is in the list and
\* every rope in the list is in the world
C30_LiveRopesAreWorldRopes ==
  physicsWorld # 0 =>
     /\ soft[physicsWorld] \subseteq Range(softBodies)
     /\ Range(softBodies) \subseteq soft[physicsWorld]

====
